---------------------------- MODULE Spec2Model ----------------------------
(*  A model of the quantization driver application/imagenet_example/main_a.py *)
(*  (main, main_worker, calibrate, validate, train, save_checkpoint) and of   *)
(*  mqbench/custom_quantizer/nlp_quantizer.py (AcademicNLPQuantizer and its   *)
(*  load-time registrations).                                                 *)
EXTENDS Integers, Sequences, FiniteSets, TLC

(* ------------------------------ bounds --------------------------------- *)
NGpus == 2          \* torch.cuda.device_count(): processes started by mp.spawn
MaxBatches == 2     \* largest number of batches the calibration loader yields
TrainBatches == 1   \* batches of train_loader
ValBatches == 1     \* batches of val_loader
MaxEpochs == 2      \* args.epochs, and the largest epoch stored in a checkpoint
MaxAcc == 1         \* accuracies are drawn from 0..MaxAcc
MaxExt == 2         \* longest additional_function_type / additional_module_type
MaxRegs == 2        \* register calls made by other modules
MaxLrEpoch == 31    \* the epoch argument of adjust_learning_rate runs over 0..MaxLrEpoch
MaxLr == 2          \* --lr and the groups' initial rates are drawn from 1..MaxLr
MaxGroups == 2      \* param_groups of the optimizer
MaxKeys == 2        \* entries of a state dict

Procs == 1..NGpus

VARIABLES
    args,        \* the parsed command line (quant, resume, evaluate, deploy, ...)
    nCali,       \* number of batches cali_loader yields
    pcMain,      \* position of main()
    pc,          \* position of each main_worker process
    mode,        \* per model instance: mode of its fake-quant nodes
    training,    \* per model instance: nn.Module.training
    inFwd,       \* per model instance: forward passes currently executing
    calls,       \* per model instance: Mode Controller calls made, in order
    device,      \* per model instance: "cuda" or "cpu"
    fwdKind,     \* per process: kind of the forward pass it is executing
    i,           \* per process: loop index of the running loader loop
    caliFwds,    \* per process: forward passes done by calibrate
    bnCalls,     \* per process: model state seen by each convert_merge_bn call
    deployLog,   \* per process: deploy steps completed, in order
    fs,          \* output directory: state of each artifact path
    start_epoch, \* per process: args.start_epoch
    epoch,       \* per process: loop variable of the training loop
    acc1,        \* per process: result of the last validate
    best_acc1,   \* per process: the global best_acc1
    saves,       \* per process: the save_checkpoint calls made, in order
    stats,       \* per model instance: where its quantization statistics come from
    qz,          \* an AcademicNLPQuantizer instance and the values read from it
    reg,         \* the quantizer registry and the register calls made
    rs,          \* the checkpoint key handling of the resume branch
    opt          \* an optimizer's param_groups and the epoch passed to adjust_learning_rate

modelVars == <<mode, training, inFwd, calls, device>>
loopVars == <<fwdKind, i, caliFwds>>
deployVars == <<bnCalls, deployLog, fs>>
trainVars == <<start_epoch, epoch, acc1, best_acc1, saves>>
workerVars == <<args, nCali, pcMain, pc, modelVars, loopVars, deployVars, trainVars, stats>>
vars == <<workerVars, qz, reg, rs, opt>>

(* ------------------------- quiescent sub-states ------------------------ *)
IdleQz == [pc |-> "idle"]
IdleReg == [pc |-> "idle"]
IdleRs == [pc |-> "idle"]
IdleOpt == [pc |-> "idle"]

Resumes == {"", "file", "nofile"}
    \* --resume: empty, a path to an existing file, a path naming no file

ArgsSet == [quant : BOOLEAN, resume : Resumes, evaluate : BOOLEAN,
            deploy : BOOLEAN, multiprocessing_distributed : BOOLEAN]

IdleArgs == [quant |-> FALSE, resume |-> "", evaluate |-> FALSE,
             deploy |-> FALSE, multiprocessing_distributed |-> FALSE]

Paths == {"sg", "clip", "sg8"}
    \* <arch>/<arch>.sg, <arch>/<arch>_act_clip.json, <arch>/<arch>_8bit.sg

InitWorkerState ==
    /\ pcMain = "main"
    /\ pc = [w \in Procs |-> "none"]
    /\ mode = [m \in Procs |-> "disabled"]
    /\ training = [m \in Procs |-> TRUE]
    /\ inFwd = [m \in Procs |-> 0]
    /\ calls = [m \in Procs |-> <<>>]
    /\ device = [m \in Procs |-> "cuda"]
    /\ fwdKind = [w \in Procs |-> "none"]
    /\ i = [w \in Procs |-> 0]
    /\ caliFwds = [w \in Procs |-> 0]
    /\ bnCalls = [w \in Procs |-> <<>>]
    /\ deployLog = [w \in Procs |-> <<>>]
    /\ fs = [p \in Paths |-> "absent"]
    /\ start_epoch = [w \in Procs |-> 0]
    /\ epoch = [w \in Procs |-> 0]
    /\ acc1 = [w \in Procs |-> 0]
    /\ best_acc1 = [w \in Procs |-> 0]
    /\ saves = [w \in Procs |-> <<>>]
    /\ stats = [m \in Procs |-> "none"]

IdleWorker ==
    /\ args = IdleArgs
    /\ nCali = 0
    /\ InitWorkerState

(* ------------------------- Mode Controller ----------------------------- *)
\* mqbench.utils.state: both calls set the mode of every fake-quant node
enable_calibration(md) == "calibrating"

enable_quantization(md) == "quantized"

\* a variant in which every process works on one shared model instance
ModelOfShared(w) == 1

\* each main_worker process builds its own model (main_a.py:159-216)
ModelOf(w) == w

(* ------------------------------- main ---------------------------------- *)
InitWorker ==
    /\ args \in {a \in ArgsSet : ~a.multiprocessing_distributed}
    /\ nCali \in 0..MaxBatches
    /\ InitWorkerState
    /\ qz = IdleQz /\ reg = IdleReg /\ rs = IdleRs /\ opt = IdleOpt

\* main_a.py:130-136  mp.spawn(main_worker, nprocs=ngpus_per_node, ...)
MainSpawn ==
    /\ pcMain = "main"
    /\ args.multiprocessing_distributed
    /\ pcMain' = "spawned"
    /\ pc' = [w \in Procs |-> "l268"]
    /\ UNCHANGED <<args, nCali, modelVars, loopVars, deployVars, trainVars, stats, qz, reg, rs, opt>>

\* main_a.py:137-139  main_worker(args.gpu, ngpus_per_node, args)
MainDirect ==
    /\ pcMain = "main"
    /\ ~args.multiprocessing_distributed
    /\ pcMain' = "called"
    /\ pc' = [w \in Procs |-> IF w = 1 THEN "l268" ELSE "none"]
    /\ UNCHANGED <<args, nCali, modelVars, loopVars, deployVars, trainVars, stats, qz, reg, rs, opt>>


(* --------------------- main_worker: resume / calibrate ----------------- *)
Append1(f, k, e) == [f EXCEPT ![k] = Append(@, e)]

\* a Mode Controller call as it happens: the call, the mode it finds, the
\* forward passes running on that model at that moment, the calling process,
\* and what has supplied the model's quantization statistics so far
ModeCall(name, w) ==
    [call |-> name, from |-> mode[ModelOf(w)], inFwd |-> inFwd[ModelOf(w)], by |-> w,
     stats |-> stats[ModelOf(w)]]

\* main_a.py:268-292  the checkpoint file exists and is loaded
ResumeLoad(w) ==
    /\ pc[w] = "l268"
    /\ args.resume = "file"
    /\ \E ep \in 0..MaxEpochs, b \in 0..MaxAcc :
          /\ start_epoch' = [start_epoch EXCEPT ![w] = ep]
          /\ best_acc1' = [best_acc1 EXCEPT ![w] = b]
    /\ stats' = [stats EXCEPT ![ModelOf(w)] = "checkpoint"]
    /\ pc' = [pc EXCEPT ![w] = "l301"]
    /\ UNCHANGED <<args, nCali, pcMain, modelVars, loopVars, deployVars,
                   epoch, acc1, saves, qz, reg, rs, opt>>

\* main_a.py:289  load_state_dict raises on keys that do not match the model
ResumeLoadRaises(w) ==
    /\ pc[w] = "l268"
    /\ args.resume = "file"
    /\ pc' = [pc EXCEPT ![w] = "raised"]
    /\ UNCHANGED <<args, nCali, pcMain, modelVars, loopVars, deployVars,
                   trainVars, stats, qz, reg, rs, opt>>

\* main_a.py:293-294  --resume names no file: a message is printed, no more
ResumeMissing(w) ==
    /\ pc[w] = "l268"
    /\ args.resume = "nofile"
    /\ pc' = [pc EXCEPT ![w] = "l301"]
    /\ UNCHANGED <<args, nCali, pcMain, modelVars, loopVars, deployVars,
                   trainVars, stats, qz, reg, rs, opt>>

\* a variant that starts calibrate without enable_calibration
EnableCalibrationStep_NoCall(w) ==
    /\ pc[w] = "l268"
    /\ args.resume = ""
    /\ args.quant
    /\ pc' = [pc EXCEPT ![w] = "l389"]
    /\ UNCHANGED <<args, nCali, pcMain, modelVars, loopVars, deployVars,
                   trainVars, stats, qz, reg, rs, opt>>

\* main_a.py:295-296  elif args.quant: enable_calibration(model)
EnableCalibrationStep(w) ==
    /\ pc[w] = "l268"
    /\ args.resume = ""
    /\ args.quant
    /\ mode' = [mode EXCEPT ![ModelOf(w)] = enable_calibration(@)]
    /\ calls' = Append1(calls, ModelOf(w), ModeCall("enable_calibration", w))
    /\ pc' = [pc EXCEPT ![w] = "l389"]
    /\ UNCHANGED <<args, nCali, pcMain, training, inFwd, device, loopVars,
                   deployVars, trainVars, stats, qz, reg, rs, opt>>

\* main_a.py:268,295  no --resume and quantization off: nothing to do
NoResumeNoQuant(w) ==
    /\ pc[w] = "l268"
    /\ args.resume = ""
    /\ ~args.quant
    /\ pc' = [pc EXCEPT ![w] = "l301"]
    /\ UNCHANGED <<args, nCali, pcMain, modelVars, loopVars, deployVars,
                   trainVars, stats, qz, reg, rs, opt>>

\* main_a.py:389  calibrate: model.eval()
CalibrateEval(w) ==
    /\ pc[w] = "l389"
    /\ training' = [training EXCEPT ![ModelOf(w)] = FALSE]
    /\ i' = [i EXCEPT ![w] = 0]
    /\ pc' = [pc EXCEPT ![w] = "l393"]
    /\ UNCHANGED <<args, nCali, pcMain, mode, inFwd, calls, device, fwdKind,
                   caliFwds, deployVars, trainVars, stats, qz, reg, rs, opt>>

\* main_a.py:393-396  next batch of cali_loader: output = model(images) starts
CalibrateFwdBegin(w) ==
    /\ pc[w] = "l393"
    /\ i[w] < nCali
    /\ inFwd' = [inFwd EXCEPT ![ModelOf(w)] = @ + 1]
    /\ fwdKind' = [fwdKind EXCEPT ![w] = "calib"]
    /\ pc' = [pc EXCEPT ![w] = "l396"]
    /\ UNCHANGED <<args, nCali, pcMain, mode, training, calls, device, i,
                   caliFwds, deployVars, trainVars, stats, qz, reg, rs, opt>>

\* main_a.py:396-397  the forward pass returns
CalibrateFwdEnd(w) ==
    /\ pc[w] = "l396"
    /\ inFwd' = [inFwd EXCEPT ![ModelOf(w)] = @ - 1]
    /\ fwdKind' = [fwdKind EXCEPT ![w] = "none"]
    /\ i' = [i EXCEPT ![w] = @ + 1]
    /\ caliFwds' = [caliFwds EXCEPT ![w] = @ + 1]
    /\ pc' = [pc EXCEPT ![w] = "l393"]
    /\ UNCHANGED <<args, nCali, pcMain, mode, training, calls, device,
                   deployVars, trainVars, stats, qz, reg, rs, opt>>

\* a variant that leaves the loop after the first batch
CalibrateReturn_Early(w) ==
    /\ pc[w] = "l393"
    /\ (i[w] >= nCali \/ i[w] >= 1)
    /\ stats' = [stats EXCEPT ![ModelOf(w)] = "calibration"]
    /\ pc' = [pc EXCEPT ![w] = "l301"]
    /\ UNCHANGED <<args, nCali, pcMain, modelVars, loopVars, deployVars,
                   trainVars, qz, reg, rs, opt>>

\* main_a.py:393,398-399  cali_loader is exhausted: calibrate returns
CalibrateReturn(w) ==
    /\ pc[w] = "l393"
    /\ i[w] >= nCali
    /\ stats' = [stats EXCEPT ![ModelOf(w)] = "calibration"]
    /\ pc' = [pc EXCEPT ![w] = "l301"]
    /\ UNCHANGED <<args, nCali, pcMain, modelVars, loopVars, deployVars,
                   trainVars, qz, reg, rs, opt>>

\* a variant that switches back to calibration after enable_quantization
EnableQuantizationStep_ReCalibrate(w) ==
    /\ pc[w] = "l301"
    /\ args.quant
    /\ mode' = [mode EXCEPT ![ModelOf(w)] = enable_calibration(enable_quantization(@))]
    /\ calls' = [calls EXCEPT ![ModelOf(w)] =
                    @ \o << ModeCall("enable_quantization", w),
                            [ModeCall("enable_calibration", w) EXCEPT !.from = "quantized"] >>]
    /\ pc' = [pc EXCEPT ![w] = "l304"]
    /\ UNCHANGED <<args, nCali, pcMain, training, inFwd, device, loopVars,
                   deployVars, trainVars, stats, qz, reg, rs, opt>>

\* main_a.py:301-302  if args.quant: enable_quantization(model)
EnableQuantizationStep(w) ==
    /\ pc[w] = "l301"
    /\ args.quant
    /\ mode' = [mode EXCEPT ![ModelOf(w)] = enable_quantization(@)]
    /\ calls' = Append1(calls, ModelOf(w), ModeCall("enable_quantization", w))
    /\ pc' = [pc EXCEPT ![w] = "l304"]
    /\ UNCHANGED <<args, nCali, pcMain, training, inFwd, device, loopVars,
                   deployVars, trainVars, stats, qz, reg, rs, opt>>

\* main_a.py:301  quantization off
SkipQuantization(w) ==
    /\ pc[w] = "l301"
    /\ ~args.quant
    /\ pc' = [pc EXCEPT ![w] = "l304"]
    /\ UNCHANGED <<args, nCali, pcMain, modelVars, loopVars, deployVars,
                   trainVars, stats, qz, reg, rs, opt>>

(* --------------------- main_worker: deploy branch ---------------------- *)
\* what convert_merge_bn finds when it is called
BnSnapshot(w) == [training |-> training'[ModelOf(w)], mode |-> mode[ModelOf(w)]]

\* a variant that passes the model without model.eval()
DeployFoldBn_NoEval(w) ==
    /\ pc[w] = "l304"
    /\ args.quant /\ args.deploy
    /\ training' = training
    /\ bnCalls' = Append1(bnCalls, w, BnSnapshot(w))
    /\ deployLog' = Append1(deployLog, w, "fold_bn")
    /\ pc' = [pc EXCEPT ![w] = "l314"]
    /\ UNCHANGED <<args, nCali, pcMain, mode, inFwd, calls, device, loopVars,
                   fs, trainVars, stats, qz, reg, rs, opt>>

\* main_a.py:304-313  convert_merge_bn(model.eval())
DeployFoldBn(w) ==
    /\ pc[w] = "l304"
    /\ args.quant /\ args.deploy
    /\ training' = [training EXCEPT ![ModelOf(w)] = FALSE]
    /\ bnCalls' = Append1(bnCalls, w, BnSnapshot(w))
    /\ deployLog' = Append1(deployLog, w, "fold_bn")
    /\ pc' = [pc EXCEPT ![w] = "l314"]
    /\ UNCHANGED <<args, nCali, pcMain, mode, inFwd, calls, device, loopVars,
                   fs, trainVars, stats, qz, reg, rs, opt>>

\* main_a.py:314  model.to(torch.device('cpu'))
DeployToCpu(w) ==
    /\ pc[w] = "l314"
    /\ device' = [device EXCEPT ![ModelOf(w)] = "cpu"]
    /\ deployLog' = Append1(deployLog, w, "to_cpu")
    /\ pc' = [pc EXCEPT ![w] = "l318"]
    /\ UNCHANGED <<args, nCali, pcMain, mode, training, inFwd, calls, loopVars,
                   bnCalls, fs, trainVars, stats, qz, reg, rs, opt>>

\* main_a.py:318  gen_sg_from_pytorch(model.eval(), dumpy_input, ...) traces
\* the model: a forward pass on the dummy input starts
DeployGenSgBegin(w) ==
    /\ pc[w] = "l318"
    /\ training' = [training EXCEPT ![ModelOf(w)] = FALSE]
    /\ inFwd' = [inFwd EXCEPT ![ModelOf(w)] = @ + 1]
    /\ fwdKind' = [fwdKind EXCEPT ![w] = "export"]
    /\ pc' = [pc EXCEPT ![w] = "l318f"]
    /\ UNCHANGED <<args, nCali, pcMain, mode, calls, device, i, caliFwds,
                   deployVars, trainVars, stats, qz, reg, rs, opt>>

\* main_a.py:318  the trace ends; the clip ranges are being written to
\* clip_range_file, which is the final path <arch>_act_clip.json
DeployGenSgWrite(w) ==
    /\ pc[w] = "l318f"
    /\ inFwd' = [inFwd EXCEPT ![ModelOf(w)] = @ - 1]
    /\ fwdKind' = [fwdKind EXCEPT ![w] = "none"]
    /\ fs' = [fs EXCEPT !["clip"] = "partial"]
    /\ pc' = [pc EXCEPT ![w] = "l318w"]
    /\ UNCHANGED <<args, nCali, pcMain, mode, training, calls, device, i,
                   caliFwds, bnCalls, deployLog, trainVars, stats, qz, reg, rs, opt>>

\* main_a.py:318  gen_sg_from_pytorch returns sg; the clip-range file is whole
DeployGenSgEnd(w) ==
    /\ pc[w] = "l318w"
    /\ fs' = [fs EXCEPT !["clip"] = "complete"]
    /\ deployLog' = Append1(deployLog, w, "gen_sg")
    /\ pc' = [pc EXCEPT ![w] = "l319"]
    /\ UNCHANGED <<args, nCali, pcMain, modelVars, loopVars, bnCalls,
                   trainVars, stats, qz, reg, rs, opt>>

\* main_a.py:319  rb_api.save_sg(sg, export_sg_file) opens <arch>.sg
DeploySaveSgBegin(w) ==
    /\ pc[w] = "l319"
    /\ fs' = [fs EXCEPT !["sg"] = "partial"]
    /\ pc' = [pc EXCEPT ![w] = "l319w"]
    /\ UNCHANGED <<args, nCali, pcMain, modelVars, loopVars, bnCalls,
                   deployLog, trainVars, stats, qz, reg, rs, opt>>

\* main_a.py:319  save_sg returns
DeploySaveSgEnd(w) ==
    /\ pc[w] = "l319w"
    /\ fs' = [fs EXCEPT !["sg"] = "complete"]
    /\ deployLog' = Append1(deployLog, w, "save_sg")
    /\ pc' = [pc EXCEPT ![w] = "l322"]
    /\ UNCHANGED <<args, nCali, pcMain, modelVars, loopVars, bnCalls,
                   trainVars, stats, qz, reg, rs, opt>>

\* main_a.py:322-323  open(clip_range_file) and json.loads of its content
DeployReadClip(w) ==
    /\ pc[w] = "l322"
    /\ fs["clip"] = "complete"
    /\ deployLog' = Append1(deployLog, w, "read_clip")
    /\ pc' = [pc EXCEPT ![w] = "l327"]
    /\ UNCHANGED <<args, nCali, pcMain, modelVars, loopVars, bnCalls, fs,
                   trainVars, stats, qz, reg, rs, opt>>

\* main_a.py:325-327  gen_quant_sg_from_clip_ranges(sg, clip_ranges, qconfig)
DeployGenQuantSg(w) ==
    /\ pc[w] = "l327"
    /\ deployLog' = Append1(deployLog, w, "gen_quant_sg")
    /\ pc' = [pc EXCEPT ![w] = "l328"]
    /\ UNCHANGED <<args, nCali, pcMain, modelVars, loopVars, bnCalls, fs,
                   trainVars, stats, qz, reg, rs, opt>>

\* main_a.py:328  rb_api.save_sg(qsg, ...) opens <arch>_8bit.sg
DeploySaveSg8Begin(w) ==
    /\ pc[w] = "l328"
    /\ fs' = [fs EXCEPT !["sg8"] = "partial"]
    /\ pc' = [pc EXCEPT ![w] = "l328w"]
    /\ UNCHANGED <<args, nCali, pcMain, modelVars, loopVars, bnCalls,
                   deployLog, trainVars, stats, qz, reg, rs, opt>>

\* a variant without the return of line 329
DeploySaveSg8End_NoReturn(w) ==
    /\ pc[w] = "l328w"
    /\ fs' = [fs EXCEPT !["sg8"] = "complete"]
    /\ deployLog' = Append1(deployLog, w, "save_sg_8bit")
    /\ pc' = [pc EXCEPT ![w] = "l331"]
    /\ UNCHANGED <<args, nCali, pcMain, modelVars, loopVars, bnCalls,
                   trainVars, stats, qz, reg, rs, opt>>

\* main_a.py:328-329  save_sg returns; return
DeploySaveSg8End(w) ==
    /\ pc[w] = "l328w"
    /\ fs' = [fs EXCEPT !["sg8"] = "complete"]
    /\ deployLog' = Append1(deployLog, w, "save_sg_8bit")
    /\ pc' = [pc EXCEPT ![w] = "returned"]
    /\ UNCHANGED <<args, nCali, pcMain, modelVars, loopVars, bnCalls,
                   trainVars, stats, qz, reg, rs, opt>>

DeployPcs == {"l314", "l318", "l318f", "l318w", "l319", "l319w", "l322",
              "l327", "l328", "l328w"}

\* main_a.py:313-328  a deploy step raises (graph generation, a save, reading
\* the clip-range file, deriving the quantized graph); nothing catches it and
\* nothing removes what was written
DeployRaise(w) ==
    /\ pc[w] \in DeployPcs
    /\ inFwd' = [inFwd EXCEPT ![ModelOf(w)] = IF pc[w] = "l318f" THEN @ - 1 ELSE @]
    /\ fwdKind' = [fwdKind EXCEPT ![w] = "none"]
    /\ pc' = [pc EXCEPT ![w] = "raised"]
    /\ UNCHANGED <<args, nCali, pcMain, mode, training, calls, device, i,
                   caliFwds, deployVars, trainVars, stats, qz, reg, rs, opt>>

\* main_a.py:304  not the deploy branch
SkipDeploy(w) ==
    /\ pc[w] = "l304"
    /\ ~(args.quant /\ args.deploy)
    /\ pc' = [pc EXCEPT ![w] = "l331"]
    /\ UNCHANGED <<args, nCali, pcMain, modelVars, loopVars, deployVars,
                   trainVars, stats, qz, reg, rs, opt>>

(* ------------------ main_worker: evaluate and training ----------------- *)
\* main_a.py:331-334  if args.evaluate: if args.quant: convert_merge_bn(model.eval())
EvalFoldBn(w) ==
    /\ pc[w] = "l331"
    /\ args.evaluate /\ args.quant
    /\ training' = [training EXCEPT ![ModelOf(w)] = FALSE]
    /\ bnCalls' = Append1(bnCalls, w, BnSnapshot(w))
    /\ pc' = [pc EXCEPT ![w] = "l335"]
    /\ UNCHANGED <<args, nCali, pcMain, mode, inFwd, calls, device, loopVars,
                   deployLog, fs, trainVars, stats, qz, reg, rs, opt>>

\* main_a.py:331-332  evaluate with quantization off
EvalNoFold(w) ==
    /\ pc[w] = "l331"
    /\ args.evaluate /\ ~args.quant
    /\ pc' = [pc EXCEPT ![w] = "l335"]
    /\ UNCHANGED <<args, nCali, pcMain, modelVars, loopVars, deployVars,
                   trainVars, stats, qz, reg, rs, opt>>

\* main_a.py:451-462  validate: model.eval()
ValidateEval(w) ==
    /\ pc[w] \in {"l335", "l349"}
    /\ training' = [training EXCEPT ![ModelOf(w)] = FALSE]
    /\ i' = [i EXCEPT ![w] = 0]
    /\ pc' = [pc EXCEPT ![w] = "l466"]
    /\ UNCHANGED <<args, nCali, pcMain, mode, inFwd, calls, device, fwdKind,
                   caliFwds, deployVars, trainVars, stats, qz, reg, rs, opt>>

\* main_a.py:466-473  next batch of val_loader: output = model(images) starts
ValidateFwdBegin(w) ==
    /\ pc[w] = "l466"
    /\ i[w] < ValBatches
    /\ inFwd' = [inFwd EXCEPT ![ModelOf(w)] = @ + 1]
    /\ fwdKind' = [fwdKind EXCEPT ![w] = "val"]
    /\ pc' = [pc EXCEPT ![w] = "l473"]
    /\ UNCHANGED <<args, nCali, pcMain, mode, training, calls, device, i,
                   caliFwds, deployVars, trainVars, stats, qz, reg, rs, opt>>

\* main_a.py:473-487  the forward pass returns, the meters are updated
ValidateFwdEnd(w) ==
    /\ pc[w] = "l473"
    /\ inFwd' = [inFwd EXCEPT ![ModelOf(w)] = @ - 1]
    /\ fwdKind' = [fwdKind EXCEPT ![w] = "none"]
    /\ i' = [i EXCEPT ![w] = @ + 1]
    /\ pc' = [pc EXCEPT ![w] = "l466"]
    /\ UNCHANGED <<args, nCali, pcMain, mode, training, calls, device,
                   caliFwds, deployVars, trainVars, stats, qz, reg, rs, opt>>

\* main_a.py:335-337,492  validate returns to the evaluate branch; return
ValidateReturnEvaluate(w) ==
    /\ pc[w] = "l466"
    /\ i[w] >= ValBatches
    /\ args.evaluate
    /\ pc' = [pc EXCEPT ![w] = "returned"]
    /\ UNCHANGED <<args, nCali, pcMain, modelVars, loopVars, deployVars,
                   trainVars, stats, qz, reg, rs, opt>>

\* main_a.py:349,492  validate returns top1.avg to the training loop
ValidateReturnTrain(w) ==
    /\ pc[w] = "l466"
    /\ i[w] >= ValBatches
    /\ ~args.evaluate
    /\ \E a \in 0..MaxAcc : acc1' = [acc1 EXCEPT ![w] = a]
    /\ pc' = [pc EXCEPT ![w] = "l352"]
    /\ UNCHANGED <<args, nCali, pcMain, modelVars, loopVars, deployVars,
                   start_epoch, epoch, best_acc1, saves, stats, qz, reg, rs, opt>>

\* main_a.py:331,339  for epoch in range(args.start_epoch, args.epochs)
LoopEnter(w) ==
    /\ pc[w] = "l331"
    /\ ~args.evaluate
    /\ epoch' = [epoch EXCEPT ![w] = start_epoch[w]]
    /\ pc' = [pc EXCEPT ![w] = "l339"]
    /\ UNCHANGED <<args, nCali, pcMain, modelVars, loopVars, deployVars,
                   start_epoch, acc1, best_acc1, saves, stats, qz, reg, rs, opt>>

\* main_a.py:339-345,413  next epoch: train switches to model.train()
TrainMode(w) ==
    /\ pc[w] = "l339"
    /\ epoch[w] < MaxEpochs
    /\ training' = [training EXCEPT ![ModelOf(w)] = TRUE]
    /\ i' = [i EXCEPT ![w] = 0]
    /\ pc' = [pc EXCEPT ![w] = "l416"]
    /\ UNCHANGED <<args, nCali, pcMain, mode, inFwd, calls, device, fwdKind,
                   caliFwds, deployVars, trainVars, stats, qz, reg, rs, opt>>

\* main_a.py:339  the range is exhausted: main_worker returns
LoopExit(w) ==
    /\ pc[w] = "l339"
    /\ epoch[w] >= MaxEpochs
    /\ pc' = [pc EXCEPT ![w] = "returned"]
    /\ UNCHANGED <<args, nCali, pcMain, modelVars, loopVars, deployVars,
                   trainVars, stats, qz, reg, rs, opt>>

\* main_a.py:416-426  next batch of train_loader: output = model(images) starts
TrainFwdBegin(w) ==
    /\ pc[w] = "l416"
    /\ i[w] < TrainBatches
    /\ inFwd' = [inFwd EXCEPT ![ModelOf(w)] = @ + 1]
    /\ fwdKind' = [fwdKind EXCEPT ![w] = "train"]
    /\ pc' = [pc EXCEPT ![w] = "l426"]
    /\ UNCHANGED <<args, nCali, pcMain, mode, training, calls, device, i,
                   caliFwds, deployVars, trainVars, stats, qz, reg, rs, opt>>

\* main_a.py:426-445  the forward pass returns; loss, backward, optimizer.step
TrainFwdEnd(w) ==
    /\ pc[w] = "l426"
    /\ inFwd' = [inFwd EXCEPT ![ModelOf(w)] = @ - 1]
    /\ fwdKind' = [fwdKind EXCEPT ![w] = "none"]
    /\ i' = [i EXCEPT ![w] = @ + 1]
    /\ pc' = [pc EXCEPT ![w] = "l416"]
    /\ UNCHANGED <<args, nCali, pcMain, mode, training, calls, device,
                   caliFwds, deployVars, trainVars, stats, qz, reg, rs, opt>>

\* main_a.py:346,448  train returns; lr_scheduler.step()
TrainReturn(w) ==
    /\ pc[w] = "l416"
    /\ i[w] >= TrainBatches
    /\ pc' = [pc EXCEPT ![w] = "l349"]
    /\ UNCHANGED <<args, nCali, pcMain, modelVars, loopVars, deployVars,
                   trainVars, stats, qz, reg, rs, opt>>

Max(a, b) == IF a >= b THEN a ELSE b

\* main_a.py:494-507  save_checkpoint(state, is_best): what it is handed
\* (state['epoch'], state['cur_acc'], state['best_acc1']) and whether it copies
\* the epoch's file over model_best.pth.tar; before is the value best_acc1 had
\* when the epoch's accuracy came in
save_checkpoint(ep, cur_acc, best, is_best, before) ==
    [epoch |-> ep, cur_acc |-> cur_acc, best_acc1 |-> best, copied |-> is_best,
     before |-> before]

\* the same step with is_best = acc1 >= best_acc1
SaveBest_NotStrict(w) ==
    /\ pc[w] = "l352"
    /\ LET is_best == acc1[w] >= best_acc1[w]
           best == Max(acc1[w], best_acc1[w])
       IN  /\ best_acc1' = [best_acc1 EXCEPT ![w] = best]
           /\ saves' = Append1(saves, w,
                 save_checkpoint(epoch[w] + 1, acc1[w], best, is_best, best_acc1[w]))
    /\ epoch' = [epoch EXCEPT ![w] = @ + 1]
    /\ pc' = [pc EXCEPT ![w] = "l339"]
    /\ UNCHANGED <<args, nCali, pcMain, modelVars, loopVars, deployVars,
                   start_epoch, acc1, stats, qz, reg, rs, opt>>

\* main_a.py:351-362  is_best = acc1 > best_acc1; best_acc1 = max(acc1,
\* best_acc1); save_checkpoint({'epoch': epoch + 1, ...}, is_best)
SaveBest(w) ==
    /\ pc[w] = "l352"
    /\ LET is_best == acc1[w] > best_acc1[w]
           best == Max(acc1[w], best_acc1[w])
       IN  /\ best_acc1' = [best_acc1 EXCEPT ![w] = best]
           /\ saves' = Append1(saves, w,
                 save_checkpoint(epoch[w] + 1, acc1[w], best, is_best, best_acc1[w]))
    /\ epoch' = [epoch EXCEPT ![w] = @ + 1]
    /\ pc' = [pc EXCEPT ![w] = "l339"]
    /\ UNCHANGED <<args, nCali, pcMain, modelVars, loopVars, deployVars,
                   start_epoch, acc1, stats, qz, reg, rs, opt>>

(* --------------------------- main_worker ------------------------------- *)
main_worker(w) ==
    \/ ResumeLoad(w) \/ ResumeLoadRaises(w) \/ ResumeMissing(w)
    \/ EnableCalibrationStep(w) \/ NoResumeNoQuant(w)
    \/ CalibrateEval(w) \/ CalibrateFwdBegin(w) \/ CalibrateFwdEnd(w)
    \/ CalibrateReturn(w)
    \/ EnableQuantizationStep(w) \/ SkipQuantization(w)
    \/ DeployFoldBn(w) \/ DeployToCpu(w) \/ DeployGenSgBegin(w)
    \/ DeployGenSgWrite(w) \/ DeployGenSgEnd(w) \/ DeploySaveSgBegin(w)
    \/ DeploySaveSgEnd(w) \/ DeployReadClip(w) \/ DeployGenQuantSg(w)
    \/ DeploySaveSg8Begin(w) \/ DeploySaveSg8End(w) \/ DeployRaise(w)
    \/ SkipDeploy(w)
    \/ EvalFoldBn(w) \/ EvalNoFold(w)
    \/ ValidateEval(w) \/ ValidateFwdBegin(w) \/ ValidateFwdEnd(w)
    \/ ValidateReturnEvaluate(w) \/ ValidateReturnTrain(w)
    \/ LoopEnter(w) \/ TrainMode(w) \/ LoopExit(w)
    \/ TrainFwdBegin(w) \/ TrainFwdEnd(w) \/ TrainReturn(w) \/ SaveBest(w)

\* python main_a.py ...: main calls main_worker in its own process
Init == InitWorker

Next ==
    \/ MainDirect
    \/ \E w \in Procs : main_worker(w)

Spec == Init /\ [][Next]_vars

\* python main_a.py --multiprocessing-distributed ...: main spawns one
\* main_worker process per GPU; the processes run concurrently
InitSpawn ==
    /\ args \in {a \in ArgsSet : a.multiprocessing_distributed}
    /\ nCali \in 0..MaxBatches
    /\ InitWorkerState
    /\ qz = IdleQz /\ reg = IdleReg /\ rs = IdleRs /\ opt = IdleOpt

NextSpawn ==
    \/ MainSpawn
    \/ \E w \in Procs : main_worker(w)

SpecSpawn == InitSpawn /\ [][NextSpawn]_vars

\* a process runs its statements one after the other until it returns or raises
FairSpec == Spec /\ WF_vars(MainDirect) /\ \A w \in Procs : WF_vars(main_worker(w))

(* ======================= properties of main_worker ===================== *)
Started == {w \in Procs : pc[w] # "none"}

CallNames(m) == [k \in 1..Len(calls[m]) |-> calls[m][k].call]

\* positions of main_worker up to and including line 301
BeforeQuantPcs == {"none", "l268", "l389", "l393", "l396", "l301"}

\* positions inside the evaluate branch, validate, and the training loop
EvalTrainPcs == {"l331", "l335", "l349", "l466", "l473", "l339", "l416", "l426", "l352"}

C3_CalibrationOnlyFirstFromDisabled ==
    \A m \in Procs : \A k \in 1..Len(calls[m]) :
        calls[m][k].call = "enable_calibration" =>
            /\ k = 1
            /\ calls[m][k].from = "disabled"
            /\ \A j \in 1..Len(calls[m]) : j # k => calls[m][j].call # "enable_calibration"

C3_Witness ==
    /\ CallNames(ModelOf(1)) = <<"enable_calibration", "enable_quantization">>
    /\ pc[1] = "returned"

\* C4 (state part): with quantization on and no --resume, every calibration
\* forward pass runs in calibrating mode, and once calibrate has returned it
\* has done exactly nCali passes; past line 302 the model is quantized.
C4_Inv ==
    \A w \in Started :
        (args.quant /\ args.resume = "") =>
            /\ fwdKind[w] = "calib" => mode[ModelOf(w)] = "calibrating"
            /\ caliFwds[w] <= nCali
            /\ pc[w] \in {"l389", "l393", "l396"} => mode[ModelOf(w)] = "calibrating"
            /\ pc[w] \notin {"l268", "l389", "l393", "l396"} => caliFwds[w] = nCali
            /\ pc[w] \notin BeforeQuantPcs =>
                  /\ mode[ModelOf(w)] = "quantized"
                  /\ CallNames(ModelOf(w)) = <<"enable_calibration", "enable_quantization">>
            /\ pc[w] = "raised" => deployLog[w] # <<>>

\* C4: with quantization on and no --resume, for every calibration loader of
\* n >= 0 batches calibrate does exactly n forward passes in calibrating mode
\* and returns, and enable_quantization is then invoked (also for n = 0).
C4_CalibrateThenQuantize ==
    /\ []C4_Inv
    /\ \A w \in Procs :
          (pc[w] = "l268" /\ args.quant /\ args.resume = "")
              ~> (mode[ModelOf(w)] = "quantized" /\ caliFwds[w] = nCali)

C4_Witness ==
    /\ args.quant /\ args.resume = "" /\ nCali = 0
    /\ pc[1] = "l304"
    /\ mode[ModelOf(1)] = "quantized"
    /\ caliFwds[1] = 0

\* C5: every convert_merge_bn call, in the deploy branch and in the evaluate
\* branch, with or without --resume, gets a model in evaluation mode whose
\* fake-quant nodes are quantized (not calibrating).
C5_FoldBnInEvalModeQuantized ==
    \A w \in Procs : \A k \in 1..Len(bnCalls[w]) :
        /\ bnCalls[w][k].training = FALSE
        /\ bnCalls[w][k].mode = "quantized"

C5_Witness ==
    /\ args.resume = "file" /\ args.deploy
    /\ Len(bnCalls[1]) = 1
    /\ deployLog[1] = <<"fold_bn">>

\* C8 (as stated): once a deploy step has failed, no artifact is present at a
\* final output path (<arch>.sg, <arch>_act_clip.json, <arch>_8bit.sg).
C8_NoArtifactAfterFailedExport ==
    \A w \in Procs :
        (pc[w] = "raised" /\ deployLog[w] # <<>>) => \A p \in Paths : fs[p] = "absent"

DeployOrder == <<"fold_bn", "to_cpu", "gen_sg", "save_sg", "read_clip",
                 "gen_quant_sg", "save_sg_8bit">>

IsPrefix(s, t) == Len(s) <= Len(t) /\ s = SubSeq(t, 1, Len(s))

\* C10: in the deploy branch the steps run in the order fold batch-norm, move
\* to CPU, generate graph and clip-range file, save graph, read clip-range
\* file, derive quantized graph, save second graph, each at most once; the
\* clip-range file is read only after it was produced; the run then returns
\* without entering evaluation or the training loop. Outside the deploy
\* branch none of the steps runs.
C10_DeployOrder ==
    \A w \in Procs :
        /\ IsPrefix(deployLog[w], DeployOrder)
        /\ deployLog[w] # <<>> => args.quant /\ args.deploy
        /\ (args.quant /\ args.deploy) =>
              /\ pc[w] \notin EvalTrainPcs
              /\ fwdKind[w] \notin {"val", "train"}
              /\ saves[w] = <<>>
              /\ pc[w] = "returned" => deployLog[w] = DeployOrder
              /\ Len(deployLog[w]) >= 5 => fs["clip"] = "complete"

C10_Witness ==
    /\ pc[1] = "returned"
    /\ deployLog[1] = DeployOrder
    /\ fs = [p \in Paths |-> "complete"]

\* C6: no mode change overlaps a forward pass on the same model instance:
\* every Mode Controller call finds no forward pass running on its model;
\* calibration passes run before enable_quantization; with quantization on,
\* training, validation and export passes run only on a quantized model; and
\* the calls on one model instance all come from one process.
C6_ModeChangesSerialized ==
    /\ \A m \in Procs : \A k \in 1..Len(calls[m]) :
          /\ calls[m][k].inFwd = 0
          /\ \A j \in 1..Len(calls[m]) : calls[m][j].by = calls[m][k].by
    /\ \A w \in Procs :
          /\ fwdKind[w] = "calib" =>
                /\ mode[ModelOf(w)] = "calibrating"
                /\ CallNames(ModelOf(w)) = <<"enable_calibration">>
          /\ (args.quant /\ fwdKind[w] \in {"train", "val", "export"}) =>
                /\ mode[ModelOf(w)] = "quantized"
                /\ calls[ModelOf(w)][Len(calls[ModelOf(w)])].call = "enable_quantization"
          /\ fwdKind[w] # "none" => inFwd[ModelOf(w)] >= 1

\* two spawned processes: one is in a calibration forward pass while the other
\* has already switched its own model to quantized mode and validates on it
C6_Witness ==
    \E w1, w2 \in Procs :
        /\ w1 # w2
        /\ fwdKind[w1] = "calib"
        /\ mode[ModelOf(w1)] = "calibrating"
        /\ fwdKind[w2] = "val"
        /\ mode[ModelOf(w2)] = "quantized"

\* C12 (as stated): with quantization on, whatever --resume is (empty, an
\* existing checkpoint file, a path naming no file), every enable_quantization
\* call is made on a model whose quantization statistics were supplied in
\* this run, by a calibration pass that returned or by a loaded checkpoint.
C12_StatsSuppliedBeforeQuantization ==
    \A m \in Procs : \A k \in 1..Len(calls[m]) :
        calls[m][k].call = "enable_quantization" =>
            calls[m][k].stats \in {"calibration", "checkpoint"}

\* positions of a process inside the training loop (lines 339-362)
TrainLoopPcs == {"l339", "l416", "l426", "l349", "l466", "l473", "l352"}

\* the largest element of a non-empty set of numbers
MaxOf(S) == CHOOSE v \in S : \A x \in S : v >= x

\* C13: across the training epochs of main_worker, best_acc1 never decreases
\* and after each epoch is the maximum of its value at loop entry and every
\* validation accuracy seen so far; save_checkpoint runs exactly once per
\* epoch (epochs start_epoch .. args.epochs - 1, in order), and it copies the
\* epoch's file over model_best.pth.tar exactly when the epoch's accuracy is
\* strictly greater than the best before that epoch.
C13_BestAccAndSaves ==
    \A w \in Procs :
        LET S == saves[w]
            n == Len(S)
            entry == IF n = 0 THEN best_acc1[w] ELSE S[1].before
        IN  /\ args.resume # "file" => entry = 0
            /\ best_acc1[w] = MaxOf({entry} \cup {S[j].cur_acc : j \in 1..n})
            /\ \A k \in 1..n :
                  /\ S[k].before = IF k = 1 THEN entry ELSE S[k - 1].best_acc1
                  /\ S[k].best_acc1 >= S[k].before
                  /\ S[k].best_acc1 =
                        MaxOf({entry} \cup {S[j].cur_acc : j \in 1..k})
                  /\ S[k].epoch = start_epoch[w] + k
                  /\ S[k].copied <=> S[k].cur_acc > S[k].before
            /\ (pc[w] \in TrainLoopPcs /\ ~args.evaluate) =>
                  n = epoch[w] - start_epoch[w]
            /\ (pc[w] = "returned" /\ ~args.evaluate /\ ~(args.quant /\ args.deploy)) =>
                  n = MaxEpochs - start_epoch[w]
            /\ (args.evaluate \/ (args.quant /\ args.deploy)) => n = 0

\* two epochs have run: the first improved on the best and was copied over
\* model_best.pth.tar, the second only equalled it and was not
C13_Witness ==
    /\ pc[1] = "returned"
    /\ Len(saves[1]) = 2
    /\ saves[1][1].copied
    /\ ~saves[1][2].copied
    /\ saves[1][2].cur_acc = saves[1][2].before

(* ===================== AcademicNLPQuantizer rule lists ================= *)
SeqsUpTo(S, n) == UNION {[1..k -> S] : k \in 0..n}

\* operator kinds and module kinds a configuration may name
FunctionTypes == {"torch.matmul", "torch.add"}
ModuleTypes == {"torch.nn.qat.modules.linear.Linear", "QConvStaticSamePadding2d"}

\* a variant that collapses extension entries equal to the base entry
function_type_to_quant_input_Dedup(q) ==
    <<"torch.matmul">> \o SelectSeq(q.additional_function_type, LAMBDA t : t # "torch.matmul")

\* nlp_quantizer.py:15-20  [torch.matmul] + self.additional_function_type
function_type_to_quant_input(q) ==
    <<"torch.matmul">> \o q.additional_function_type

\* nlp_quantizer.py:22-27  (qat Linear,) + self.additional_module_type
module_type_to_quant_input(q) ==
    <<"torch.nn.qat.modules.linear.Linear">> \o q.additional_module_type

\* an instance built from extra_quantizer_dict (main_a.py:206-208 passes
\* additional_module_type = (QConvStaticSamePadding2d,); empty by default)
InitQuantizer ==
    /\ IdleWorker
    /\ reg = IdleReg /\ rs = IdleRs /\ opt = IdleOpt
    /\ \E f \in SeqsUpTo(FunctionTypes, MaxExt), m \in SeqsUpTo(ModuleTypes, MaxExt) :
          qz = [pc |-> "built",
                additional_function_type |-> f, additional_module_type |-> m,
                fread |-> FALSE, fres |-> <<>>, mread |-> FALSE, mres |-> <<>>]

\* a caller reads the property function_type_to_quant_input
ReadFunctionTypes ==
    /\ qz.pc = "built"
    /\ ~qz.fread
    /\ qz' = [qz EXCEPT !.fread = TRUE, !.fres = function_type_to_quant_input(qz)]
    /\ UNCHANGED <<workerVars, reg, rs, opt>>

\* a caller reads the property module_type_to_quant_input
ReadModuleTypes ==
    /\ qz.pc = "built"
    /\ ~qz.mread
    /\ qz' = [qz EXCEPT !.mread = TRUE, !.mres = module_type_to_quant_input(qz)]
    /\ UNCHANGED <<workerVars, reg, rs, opt>>

NextQuantizer == ReadFunctionTypes \/ ReadModuleTypes

SpecQuantizer == InitQuantizer /\ [][NextQuantizer]_vars

\* r is the entry base followed by the entries of ext, in order, all kept
BaseThenExtension(r, base, ext) ==
    /\ Len(r) = 1 + Len(ext)
    /\ r[1] = base
    /\ \A k \in 1..Len(ext) : r[k + 1] = ext[k]

\* C2: function_type_to_quant_input is matmul followed by
\* additional_function_type and module_type_to_quant_input is QAT Linear
\* followed by additional_module_type: base first, order and duplicates kept,
\* length 1 + the extension's length, the base alone for an empty extension.
C2_BaseThenExtension ==
    /\ (qz.pc = "built" /\ qz.fread) =>
          /\ BaseThenExtension(qz.fres, "torch.matmul", qz.additional_function_type)
          /\ qz.additional_function_type = <<>> => qz.fres = <<"torch.matmul">>
    /\ (qz.pc = "built" /\ qz.mread) =>
          /\ BaseThenExtension(qz.mres, "torch.nn.qat.modules.linear.Linear",
                               qz.additional_module_type)
          /\ qz.additional_module_type = <<>> =>
                qz.mres = <<"torch.nn.qat.modules.linear.Linear">>

\* both lists were read, with an extension that repeats the base entry
C2_Witness ==
    /\ qz.pc = "built" /\ qz.fread /\ qz.mread
    /\ qz.additional_function_type = <<"torch.add", "torch.matmul">>
    /\ qz.fres = <<"torch.matmul", "torch.add", "torch.matmul">>
    /\ qz.additional_module_type = <<"QConvStaticSamePadding2d">>
    /\ Len(qz.mres) = 2

(* ========================== quantizer registry ========================= *)
Families == {"CNN", "Transformer", "RNN"}
Classes == {"AcademicNLPQuantizer", "ModelQuantizer"}

\* register(family_name, quantizer_class): records or overwrites the mapping
register(table, f, c) == {e \in table : e[1] # f} \cup {<<f, c>>}

\* resolve(family_name): the class, or UnknownFamilyError if absent
resolve(table, f) ==
    IF \E e \in table : e[1] = f
    THEN (CHOOSE e \in table : e[1] = f)[2]
    ELSE "UnknownFamilyError"

\* a sequence of decorators registers its entries one after the other
RECURSIVE RegisterAll(_, _)
RegisterAll(table, regs) ==
    IF regs = <<>> THEN table
    ELSE RegisterAll(register(table, Head(regs)[1], Head(regs)[2]), Tail(regs))

\* a variant with the 'CNN' decorator missing
LoadTimeRegistrations_NoCNN == << <<"Transformer", "AcademicNLPQuantizer">> >>

\* nlp_quantizer.py:6-8  the decorators of AcademicNLPQuantizer, applied
\* bottom-up when the module is loaded: 'Transformer' first, then 'CNN'
LoadTimeRegistrations ==
    << <<"Transformer", "AcademicNLPQuantizer">>, <<"CNN", "AcademicNLPQuantizer">> >>

InitRegistry ==
    /\ IdleWorker
    /\ qz = IdleQz /\ rs = IdleRs /\ opt = IdleOpt
    /\ reg = [pc |-> "start", table |-> {}, log |-> <<>>, others |-> 0,
              res |-> [family |-> "", class |-> "", at |-> 0]]

\* import of mqbench.custom_quantizer.nlp_quantizer
LoadNlpQuantizer ==
    /\ reg.pc = "start"
    /\ reg' = [reg EXCEPT !.pc = "loaded",
                          !.table = RegisterAll(@, LoadTimeRegistrations),
                          !.log = @ \o LoadTimeRegistrations]
    /\ UNCHANGED <<workerVars, qz, rs, opt>>

\* another module registers a quantizer class, before or after that import
RegisterOther(f, c) ==
    /\ reg.pc \in {"start", "loaded"}
    /\ reg.others < MaxRegs
    /\ reg' = [reg EXCEPT !.table = register(@, f, c),
                          !.log = Append(@, <<f, c>>),
                          !.others = @ + 1]
    /\ UNCHANGED <<workerVars, qz, rs, opt>>

\* a caller resolves a family
Resolve(f) ==
    /\ reg.pc \in {"start", "loaded"}
    /\ reg' = [reg EXCEPT !.res = [family |-> f, class |-> resolve(reg.table, f),
                                    at |-> Len(reg.log)]]
    /\ UNCHANGED <<workerVars, qz, rs, opt>>

NextRegistry ==
    \/ LoadNlpQuantizer
    \/ \E f \in Families, c \in Classes : RegisterOther(f, c)
    \/ \E f \in Families : Resolve(f)

SpecRegistry == InitRegistry /\ [][NextRegistry]_vars

\* the class of the last of the first n register calls that names family f
RECURSIVE LastRegistered(_, _, _)
LastRegistered(log, n, f) ==
    IF n = 0 THEN "UnknownFamilyError"
    ELSE IF log[n][1] = f THEN log[n][2]
    ELSE LastRegistered(log, n - 1, f)

\* C7: after the load-time registrations 'CNN' and 'Transformer' each map to
\* exactly one class; a family never maps to more than one class; and resolve
\* returns the class of the most recent registration of the family.
C7_OneClassPerFamilyLastWins ==
    /\ reg.pc = "loaded" =>
          \A f \in {"CNN", "Transformer"} :
              Cardinality({e \in reg.table : e[1] = f}) = 1
    /\ reg.pc \in {"start", "loaded"} =>
          /\ \A f \in Families : Cardinality({e \in reg.table : e[1] = f}) <= 1
          /\ \A f \in Families :
                LastRegistered(reg.log, Len(reg.log), f) # "UnknownFamilyError" =>
                    <<f, LastRegistered(reg.log, Len(reg.log), f)>> \in reg.table
          /\ reg.res.family # "" =>
                reg.res.class = LastRegistered(reg.log, reg.res.at, reg.res.family)

\* 'CNN' was registered by another module, then again by the decorators, and
\* resolve('CNN') returned the later class
C7_Witness ==
    /\ reg.pc = "loaded"
    /\ reg.log = << <<"CNN", "ModelQuantizer">>,
                    <<"Transformer", "AcademicNLPQuantizer">>,
                    <<"CNN", "AcademicNLPQuantizer">> >>
    /\ reg.res = [family |-> "CNN", class |-> "AcademicNLPQuantizer", at |-> 3]

(* ================= resume: keys of the loaded state dict =============== *)
\* strings are sequences of characters
ModulePrefix == <<"m", "o", "d", "u", "l", "e", ".">>            \* 'module.'
FeaturesPrefix == <<"f", "e", "a", "t", "u", "r", "e", "s", ".">>  \* 'features.'

\* parameter names of the bare model
ParamNames == { <<"w">>, <<"b">>, <<"f", "c", ".", "w">> }

\* the three ways main_worker wraps a model (main_a.py:232,237,247; 244)
KeyForms == {"plain", "module", "features"}

\* key of the j-th parameter: DataParallel / DistributedDataParallel prefix
\* every key with 'module.'; for alexnet / vgg only model.features is wrapped,
\* which gives 'features.module.<name>' for the first parameters
KeyOf(form, name, j) ==
    IF form = "module" THEN ModulePrefix \o name
    ELSE IF form = "features" /\ j = 1 THEN FeaturesPrefix \o ModulePrefix \o name
    ELSE name

\* Python: sub in s
Contains(s, sub) ==
    \E k \in 0..(Len(s) - Len(sub)) : SubSeq(s, k + 1, k + Len(sub)) = sub

\* Python: k[7:]
Slice7(k) == SubSeq(k, 8, Len(k))

HasKey(d, k) == \E j \in 1..Len(d) : d[j].k = k

\* Python: d.pop(k), the dict that remains
Pop(d, k) == SelectSeq(d, LAMBDA e : e.k # k)

\* Python: d[k], for a key that is present
Get(d, k) == d[CHOOSE j \in 1..Len(d) : d[j].k = k].v

\* Python: d[k] = v; a present key keeps its position, a new key goes last
SetItem(d, k, v) ==
    IF HasKey(d, k)
    THEN [j \in 1..Len(d) |-> IF d[j].k = k THEN [k |-> k, v |-> v] ELSE d[j]]
    ELSE Append(d, [k |-> k, v |-> v])

Keys(d) == [j \in 1..Len(d) |-> d[j].k]

DistinctSeqs(S, n) ==
    {q \in SeqsUpTo(S, n) : Len(q) >= 1 /\ \A a, b \in 1..Len(q) : a # b => q[a] # q[b]}

\* main_a.py:283-284  state_dict = checkpoint['state_dict'];
\* model_dict = model.state_dict(): the same parameters, each in the key form
\* of the model it came from; a value is the parameter's position
InitResume ==
    /\ IdleWorker
    /\ qz = IdleQz /\ reg = IdleReg /\ opt = IdleOpt
    /\ \E names \in DistinctSeqs(ParamNames, MaxKeys), cf \in KeyForms, mf \in KeyForms :
          rs = [pc |-> "l285", names |-> names, ckptForm |-> cf, modelForm |-> mf,
                state_dict |-> [j \in 1..Len(names) |->
                                   [k |-> KeyOf(cf, names[j], j), v |-> j]],
                model_dict |-> [j \in 1..Len(names) |->
                                   [k |-> KeyOf(mf, names[j], j), v |-> 0]],
                todo |-> <<>>]

\* main_a.py:285  'module.' in first checkpoint key and not in first model key
NeedsStrip ==
    /\ Contains(Keys(rs.state_dict)[1], ModulePrefix)
    /\ ~Contains(Keys(rs.model_dict)[1], ModulePrefix)

\* main_a.py:285-286  the condition holds: for k in list(state_dict.keys())
ResumeStripBegin ==
    /\ rs.pc = "l285"
    /\ NeedsStrip
    /\ rs' = [rs EXCEPT !.pc = "l286", !.todo = Keys(rs.state_dict)]
    /\ UNCHANGED <<workerVars, qz, reg, opt>>

\* main_a.py:285  the condition fails: the checkpoint's keys are left alone
ResumeNoStrip ==
    /\ rs.pc = "l285"
    /\ ~NeedsStrip
    /\ rs' = [rs EXCEPT !.pc = "l289"]
    /\ UNCHANGED <<workerVars, qz, reg, opt>>

\* main_a.py:287  state_dict[k[7:]] = state_dict.pop(k)
ResumeStripKey ==
    /\ rs.pc = "l286"
    /\ rs.todo # <<>>
    /\ LET k == Head(rs.todo)
           v == Get(rs.state_dict, k)
       IN  rs' = [rs EXCEPT !.state_dict = SetItem(Pop(@, k), Slice7(k), v),
                            !.todo = Tail(@)]
    /\ UNCHANGED <<workerVars, qz, reg, opt>>

\* main_a.py:286  the key list is exhausted
ResumeStripEnd ==
    /\ rs.pc = "l286"
    /\ rs.todo = <<>>
    /\ rs' = [rs EXCEPT !.pc = "l289"]
    /\ UNCHANGED <<workerVars, qz, reg, opt>>

SeqRange(q) == {q[j] : j \in 1..Len(q)}

\* main_a.py:289  model.load_state_dict(checkpoint['state_dict']): strict
\* loading accepts exactly the model's own keys
ResumeLoadStateDict ==
    /\ rs.pc = "l289"
    /\ rs' = [rs EXCEPT !.pc =
                 IF SeqRange(Keys(rs.state_dict)) = SeqRange(Keys(rs.model_dict))
                 THEN "loaded" ELSE "raised"]
    /\ UNCHANGED <<workerVars, qz, reg, opt>>

NextResume ==
    \/ ResumeStripBegin \/ ResumeNoStrip \/ ResumeStripKey \/ ResumeStripEnd
    \/ ResumeLoadStateDict

SpecResume == InitResume /\ [][NextResume]_vars

\* C9 (as stated): for a checkpoint from a wrapped or an unwrapped model and
\* a current model that is wrapped or unwrapped, the dict passed to
\* load_state_dict has the current model's keys (prefix stripped or added as
\* needed, untouched otherwise), with every entry and its value preserved.
C9_PassedKeysMatchModel ==
    (/\ rs.pc \in {"l289", "loaded", "raised"}
     /\ rs.ckptForm \in {"plain", "module"}
     /\ rs.modelForm \in {"plain", "module"}) =>
        /\ Len(rs.state_dict) = Len(rs.names)
        /\ \A j \in 1..Len(rs.names) :
              /\ HasKey(rs.state_dict, rs.model_dict[j].k)
              /\ Get(rs.state_dict, rs.model_dict[j].k) = j

(* ========================= adjust_learning_rate ======================== *)
\* a learning rate base * 0.1 ^ tenths, base in the unit --lr is given in
Lr(base, tenths) == [base |-> base, tenths |-> tenths]

\* main_a.py:553  lr = args.lr * (0.1 ** (epoch // 5))
adjust_learning_rate(lr, ep) == Lr(lr, ep \div 5)

\* main_a.py:251-261,551  an optimizer with its param_groups, each with the
\* learning rate it was given, and the arguments of one call
\* adjust_learning_rate(optimizer, epoch, args)
InitLr ==
    /\ IdleWorker
    /\ qz = IdleQz /\ reg = IdleReg /\ rs = IdleRs
    /\ \E ep \in 0..MaxLrEpoch, lr \in 1..MaxLr, n \in 1..MaxGroups :
          \E g \in [1..n -> 1..MaxLr] :
             opt = [pc |-> "l553", epoch |-> ep, args_lr |-> lr,
                    param_groups |-> [j \in 1..n |-> Lr(g[j], 0)],
                    lr |-> Lr(0, 0), j |-> 0]

\* main_a.py:553  the new rate is computed once
AdjustCompute ==
    /\ opt.pc = "l553"
    /\ opt' = [opt EXCEPT !.lr = adjust_learning_rate(opt.args_lr, opt.epoch),
                          !.j = 1, !.pc = "l554"]
    /\ UNCHANGED <<workerVars, qz, reg, rs>>

\* main_a.py:554-555  for param_group in optimizer.param_groups:
\* param_group['lr'] = lr
AdjustGroup ==
    /\ opt.pc = "l554"
    /\ opt.j <= Len(opt.param_groups)
    /\ opt' = [opt EXCEPT !.param_groups[opt.j] = opt.lr, !.j = @ + 1]
    /\ UNCHANGED <<workerVars, qz, reg, rs>>

\* main_a.py:554  the groups are exhausted: the function returns
AdjustReturn ==
    /\ opt.pc = "l554"
    /\ opt.j > Len(opt.param_groups)
    /\ opt' = [opt EXCEPT !.pc = "returned"]
    /\ UNCHANGED <<workerVars, qz, reg, rs>>

NextLr == AdjustCompute \/ AdjustGroup \/ AdjustReturn

SpecLr == InitLr /\ [][NextLr]_vars

\* C11 (as stated): for every epoch >= 0, when adjust_learning_rate returns
\* every parameter group's learning rate is the initial rate decayed by a
\* factor of 10 once every 30 epochs: args.lr * 0.1 ^ (epoch // 30).
C11_DecayEvery30Epochs ==
    opt.pc = "returned" =>
        \A j \in 1..Len(opt.param_groups) :
            opt.param_groups[j] = Lr(opt.args_lr, opt.epoch \div 30)

=============================================================================
